---- MODULE Spec2Model ----
(***************************************************************************)
(* A model of glslr-db: the CHS and NOAA water-level fetchers              *)
(* (src/fetchers/chs.py, src/fetchers/noaa.py) and the batch loader        *)
(* (src/main.py).                                                          *)
(*                                                                         *)
(* Water levels are integers in centimetres (1.00 m = 100); a missing      *)
(* value (numpy nan) is the empty tuple and a number v is <<v>>.           *)
(***************************************************************************)
EXTENDS Integers, Sequences, FiniteSets, TLC

VARIABLES
    \* clean_CHS (src/fetchers/chs.py:40-70)
    cleanPc,      \* the statement clean_CHS is about to run
    cleanIn,      \* the series clean_CHS was called with
    timeseries,   \* the local variable `timeseries`
    stats,        \* what `mean` and `stdev` were computed from
    passes,       \* the value of `timeseries` after each pass so far
    \* resample_chs (src/fetchers/chs.py:73-122), resample_noaa (src/fetchers/noaa.py:11-36)
    rsFn,         \* the resampler called: "chs" or "noaa"
    rsPc,         \* "call", "noaa_hourly" (after noaa.py:16), "done"
    rsTimestep,   \* the argument `timestep`
    rsIn,         \* the argument `df`: rows [t |-> time, v |-> level], ascending in t
    rsToday,      \* date.today(), as a day number
    rsDf,         \* the local variable `df`
    \* fetch_chs_levels (src/fetchers/chs.py:155-326), fetch_noaa_levels (src/fetchers/noaa.py:39-107)
    fPc,          \* the statement the fetch is about to run; "return", "raised" when over
    fArgs,        \* the arguments: provider, stn_ID, start, end, timestep, cd
    fEnv,         \* the surroundings: UTC_OFFSET, today, the station list, what fails
    start_utc,    \* the loop variable: start_utc (CHS), start (NOAA)
    end_utc,      \* the loop's end: end_utc (CHS), end (NOAA)
    fDf,          \* the local variable `df`, the frame under construction: rows [t, v] in insertion order
    column,       \* the label of the frame's value column
    windows,      \* the window queries issued so far: [lo, hi] as sent
    calls,        \* the number of upstream service calls issued by this fetch
    stages,       \* the pipeline stages this fetch has run, in order
    fResult,      \* what the fetch returned or raised
    \* stns_data_to_db, fetch_stn_data (src/main.py:115-179)
    bPc,          \* "fetch" (about to call fetch_stn_data), "fetching", "done", "raised"
    stations,     \* the argument `stations`: rows [id, provider, cd]
    upstream,     \* what each station's fetch will meet: UTC_OFFSET, today, what fails
    bRange,       \* the arguments `start` and `end`
    ix,           \* the position in `stations` of the loop variable `stn`
    dfs,          \* what fetch_stn_data returned for each station so far
    tables,       \* the store: the rows of each station's table
    runs,         \* the number of batch runs started so far
    written,      \* the frames handed to to_sql so far, for each station's table
    datatable     \* what the last get_datatable returned

cleanVars == <<cleanPc, cleanIn, timeseries, stats, passes>>

rsVars == <<rsFn, rsPc, rsTimestep, rsIn, rsToday, rsDf>>

fetchVars == <<fPc, fArgs, fEnv, start_utc, end_utc, fDf, column, windows, calls,
               stages, fResult>>

batchVars == <<bPc, stations, upstream, bRange, ix, dfs, tables, runs, written, datatable>>

vars == <<cleanVars, rsVars, fetchVars, batchVars>>

\* clean_CHS is not running
CleanIdle ==
    /\ cleanPc = "idle"
    /\ cleanIn = <<>>
    /\ timeseries = <<>>
    /\ stats = [n |-> 0, S |-> 0, SS |-> 0]
    /\ passes = <<>>

\* no resampler is running
RsIdle ==
    /\ rsFn = "none"
    /\ rsPc = "idle"
    /\ rsTimestep = "default"
    /\ rsIn = <<>>
    /\ rsToday = 0
    /\ rsDf = <<>>

\* an argument that is not given (Python's None)
NoArgs ==
    [provider |-> "none", stn_ID |-> [type |-> "str", chars |-> <<>>], start |-> 0, end |-> 0,
     timestep |-> "default", cd |-> [given |-> FALSE, val |-> <<>>]]

NoEnv == [UTC_OFFSET |-> 0, today |-> 0, listed |-> FALSE, fault |-> "none", at |-> 0]

\* no fetch is running
FetchIdle ==
    /\ fPc = "idle"
    /\ fArgs = NoArgs
    /\ fEnv = NoEnv
    /\ start_utc = 0
    /\ end_utc = 0
    /\ fDf = <<>>
    /\ column = "stn_ID"
    /\ windows = <<>>
    /\ calls = 0
    /\ stages = <<>>
    /\ fResult = [kind |-> "pending"]

\* no batch is running
BatchIdle ==
    /\ bPc = "idle"
    /\ stations = <<>>
    /\ upstream = <<>>
    /\ bRange = [start |-> 0, end |-> 0]
    /\ ix = 0
    /\ dfs = <<>>
    /\ tables = <<>>
    /\ runs = 0
    /\ written = <<>>
    /\ datatable = [kind |-> "pending"]

----------------------------------------------------------------------------
\* Time: a datetime is a number of seconds since 00:00:00 of day 0

SecondsPerMinute == 60

MinutesPerHour == 60

HoursPerDay == 24

SecondsPerHour == SecondsPerMinute * MinutesPerHour

SecondsPerDay == SecondsPerHour * HoursPerDay

\* timedelta(hours = h), timedelta(days = d)
Hours(h) == h * SecondsPerHour

Days(d) == d * SecondsPerDay

----------------------------------------------------------------------------
\* Floating point values with nan

NaN == <<>>

IsNaN(x) == x = NaN

Num(v) == <<v>>

\* a - b on floats: nan when either operand is nan
Sub(a, b) == IF IsNaN(a) \/ IsNaN(b) THEN NaN ELSE Num(a[1] - b[1])

\* a + b on floats
Add(a, b) == IF IsNaN(a) \/ IsNaN(b) THEN NaN ELSE Num(a[1] + b[1])

\* pandas Series.diff(k): s[i] - s[i-k], nan for the first k entries
Diff(s, k) == [i \in 1..Len(s) |-> IF i <= k THEN NaN ELSE Sub(s[i], s[i - k])]

\* x != 0.0 : a comparison with nan by != is True
NeZero(x) == IsNaN(x) \/ x[1] # 0

\* x < c : a comparison with nan by < is False
LtC(x, c) == ~IsNaN(x) /\ x[1] < c

\* x > c : a comparison with nan by > is False
GtC(x, c) == ~IsNaN(x) /\ x[1] > c

\* pandas Series.where(cond, nan): keep s[i] where cond[i], nan elsewhere
\* a `where` whose replacement value is 0 instead of nan
WhereZero(s, cond) == [i \in 1..Len(s) |-> IF cond[i] THEN s[i] ELSE Num(0)]

Where(s, cond) == [i \in 1..Len(s) |-> IF cond[i] THEN s[i] ELSE NaN]

RECURSIVE SumOver(_, _)
SumOver(s, i) == IF i = 0 THEN 0
                 ELSE SumOver(s, i - 1) + (IF IsNaN(s[i]) THEN 0 ELSE s[i][1])

RECURSIVE SumSqOver(_, _)
SumSqOver(s, i) == IF i = 0 THEN 0
                   ELSE SumSqOver(s, i - 1)
                        + (IF IsNaN(s[i]) THEN 0 ELSE s[i][1] * s[i][1])

\* The non-null count, sum and sum of squares that Series.mean() and
\* Series.std() (sample standard deviation, ddof = 1, nan skipped) are
\* computed from.
SeriesStats(s) ==
    [n  |-> Cardinality({i \in 1..Len(s) : ~IsNaN(s[i])}),
     S  |-> SumOver(s, Len(s)),
     SS |-> SumSqOver(s, Len(s))]

\* n times the sum of squared deviations from the mean
NVar(st) == st.n * st.SS - st.S * st.S

\* x < mean + 4*stdev. mean is nan for n = 0 and stdev is nan for n <= 1, and
\* then the comparison is False. Otherwise, with d = n*(x - mean):
\* x - mean < 4*stdev  iff  d < 0  or  d^2 * (n-1) < 16 * n * NVar.
BelowUpper(x, st) ==
    /\ ~IsNaN(x)
    /\ st.n >= 2
    /\ LET d == st.n * x[1] - st.S
       IN  d < 0 \/ d * d * (st.n - 1) < 16 * st.n * NVar(st)

\* x > mean - 4*stdev
AboveLower(x, st) ==
    /\ ~IsNaN(x)
    /\ st.n >= 2
    /\ LET d == st.S - st.n * x[1]
       IN  d < 0 \/ d * d * (st.n - 1) < 16 * st.n * NVar(st)

----------------------------------------------------------------------------
\* clean_CHS, one action per statement

\* max_chg = 2.5 (metres), in centimetres
max_chg == 250

\* the longest series clean_CHS is given
MaxLen == 4

\* the water levels a series is made of (cm)
Levels == {0, 100, 250, 300, 550}

RECURSIVE SeqsUpTo(_, _)
SeqsUpTo(S, n) ==
    IF n = 0 THEN {<<>>}
    ELSE LET shorter == SeqsUpTo(S, n - 1)
         IN  shorter \cup {Append(s, x) : s \in {t \in shorter : Len(t) = n - 1}, x \in S}

\* a long series: levels a centimetre apart around `base`, one repeated value,
\* and one reading `spike` away from the rest, a step of less than max_chg but
\* more than 4 standard deviations from the mean
LongLen == 20

LongSeries(base, spike) ==
    [i \in 1..LongLen |->
        Num(IF i = LongLen - 1 THEN base + spike
            ELSE IF i = 5 THEN base + (4 % 3)
            ELSE base + (i % 3))]

LongInputs == {LongSeries(300, 200), LongSeries(300, -200)}

\* every series of up to MaxLen levels or nan, and the long series
CleanInputs == SeqsUpTo({Num(v) : v \in Levels} \cup {NaN}, MaxLen) \cup LongInputs

\* cond1 & cond2 of the repeated-value pass
RepeatedKeep(s) ==
    [i \in 1..Len(s) |-> NeZero(Diff(s, 1)[i]) /\ NeZero(Diff(s, 2)[i])]

\* timeseries.diff(1) < max_chg
PosJumpKeep(s) == [i \in 1..Len(s) |-> LtC(Diff(s, 1)[i], max_chg)]

\* timeseries.diff(1) > -1*max_chg
NegJumpKeep(s) == [i \in 1..Len(s) |-> GtC(Diff(s, 1)[i], -1 * max_chg)]

UpperKeep(s, st) == [i \in 1..Len(s) |-> BelowUpper(s[i], st)]

LowerKeep(s, st) == [i \in 1..Len(s) |-> AboveLower(s[i], st)]

CleanInit ==
    /\ cleanPc = "stats"
    /\ cleanIn \in CleanInputs
    /\ timeseries = cleanIn
    /\ stats = [n |-> 0, S |-> 0, SS |-> 0]
    /\ passes = <<>>

CleanStep(from, to, result) ==
    /\ cleanPc = from
    /\ cleanPc' = to
    /\ timeseries' = result
    /\ passes' = Append(passes, result)
    /\ UNCHANGED <<cleanIn, stats, rsVars, fetchVars, batchVars>>

\* mean = timeseries.mean(); stdev = timeseries.std()
CleanStats ==
    /\ cleanPc = "stats"
    /\ cleanPc' = "repeated"
    /\ stats' = SeriesStats(timeseries)
    /\ UNCHANGED <<cleanIn, timeseries, passes, rsVars, fetchVars, batchVars>>

CleanRepeated ==
    CleanStep("repeated", "posjump", Where(timeseries, RepeatedKeep(timeseries)))

CleanPosJump ==
    CleanStep("posjump", "negjump", Where(timeseries, PosJumpKeep(timeseries)))

CleanNegJump ==
    CleanStep("negjump", "upper", Where(timeseries, NegJumpKeep(timeseries)))

CleanUpper ==
    CleanStep("upper", "lower", Where(timeseries, UpperKeep(timeseries, stats)))

CleanLower ==
    CleanStep("lower", "done", Where(timeseries, LowerKeep(timeseries, stats)))

CleanNext ==
    \/ CleanStats
    \/ CleanRepeated
    \/ CleanPosJump
    \/ CleanNegJump
    \/ CleanUpper
    \/ CleanLower

----------------------------------------------------------------------------
\* resample_chs and resample_noaa
\*
\* A frame is a sequence of rows [t, v] ascending in t. Input rows carry a
\* time in seconds; the rows of a daily frame carry a day number.

\* the calendar day and the hourly bucket ('1H') a time falls in
DayOf(t) == t \div SecondsPerDay

HourOf(t) == t \div SecondsPerHour

\* numpy.around(sum / n, 2) for levels in centimetres: the nearest whole
\* centimetre, a tie going to the even one; nan when there is nothing to average
RoundedMean(sum, n) ==
    IF n = 0 THEN NaN
    ELSE LET q == sum \div n
             r == sum % n
         IN  IF 2 * r < n THEN Num(q)
             ELSE IF 2 * r > n THEN Num(q + 1)
             ELSE IF q % 2 = 0 THEN Num(q) ELSE Num(q + 1)

\* the rows of df (by position) that fall in day d, in hourly bucket h
RowsOfDay(df, d) == {i \in 1..Len(df) : DayOf(df[i].t) = d}

RowsOfHour(df, h) == {i \in 1..Len(df) : HourOf(df[i].t) = h}

\* the non-null ones among the rows `rows` of df
Valid(df, rows) == {i \in rows : ~IsNaN(df[i].v)}

RECURSIVE SumRows(_, _)
SumRows(df, rows) ==
    IF rows = {} THEN 0
    ELSE LET i == CHOOSE j \in rows : TRUE
         IN  df[i].v[1] + SumRows(df, rows \ {i})

\* the smallest element of a non-empty set of positions
First(rows) == CHOOSE i \in rows : \A j \in rows : i <= j

\* the daily buckets resample("D") spans: from the first row's day to the last row's
DayBuckets(df) ==
    IF Len(df) = 0 THEN {} ELSE DayOf(df[1].t)..DayOf(df[Len(df)].t)

\* the hourly buckets resample('1H') spans
HourBuckets(df) ==
    IF Len(df) = 0 THEN {} ELSE HourOf(df[1].t)..HourOf(df[Len(df)].t)

\* the least number of hours in a day for the day's mean to count (chs.py:100)
MinHours == 18

\* df.resample("D").count() >= 18 for day d: the non-null rows of the day
MinNumHrsMask(df, d) == Cardinality(Valid(df, RowsOfDay(df, d))) >= MinHours

\* df.resample("D").mean() for day d, rounded (chs.py:103, 109)
DayMean(df, d) ==
    LET rows == Valid(df, RowsOfDay(df, d))
    IN  RoundedMean(SumRows(df, rows), Cardinality(rows))

\* resample_chs(df, 'daily') (chs.py:95-117)
ResampleChsDailyOf(df) ==
    [i \in 1..Cardinality(DayBuckets(df)) |->
        LET d == DayOf(df[1].t) + i - 1
        IN  [t |-> d, v |-> IF MinNumHrsMask(df, d) THEN DayMean(df, d) ELSE NaN]]

\* df.resample('1H').first(): one row per hourly bucket, holding the first
\* non-null value of the bucket, nan when it has none
HourlyFirst(df) ==
    [i \in 1..Cardinality(HourBuckets(df)) |->
        LET h    == HourOf(df[1].t) + i - 1
            rows == Valid(df, RowsOfHour(df, h))
        IN  [t |-> h * SecondsPerHour,
             v |-> IF rows = {} THEN NaN ELSE df[First(rows)].v]]

\* (a resampler that does not shift)
NoShift(df) == df

\* df.shift(-1): every row takes the value of the row after it, the last row nan
ShiftBack(df) ==
    [i \in 1..Len(df) |-> [t |-> df[i].t,
                           v |-> IF i < Len(df) THEN df[i + 1].v ELSE NaN]]

\* around(shifted.groupby(df.index.date).mean(), 2): one row per date that occurs
\* in the index (noaa.py:23)
DailyByDate(shifted) ==
    LET days == {DayOf(shifted[i].t) : i \in 1..Len(shifted)}
        Row(k) == LET d == CHOOSE x \in days : Cardinality({y \in days : y < x}) = k
                  IN  [t |-> d, v |-> DayMean(shifted, d)]
    IN  [i \in 1..Cardinality(days) |-> Row(i - 1)]

\* df.loc[:yesterday] on a frame indexed by date (noaa.py:27-30)
UpToYesterday(daily, today) ==
    SelectSeq(daily, LAMBDA row : row.t <= today - 1)

\* the longest input frame
MaxObs == 26

\* the inputs: n observations, `spacing` seconds apart, from time `start` on,
\* one of which may be missing (nan); levels around 74 m
RsStarts == {0, Hours(6), Hours(23)}

RsSpacings == {15 * SecondsPerMinute, Hours(1), Hours(3)}

RsPatterns == {"flat", "ramp", "saw"}

RsHoles == {0, 1, 18}

RsLevel(pattern, i) ==
    CASE pattern = "flat" -> 7400
      [] pattern = "ramp" -> 7400 + i
      [] pattern = "saw"  -> 7400 + 3 * (i % 2)

RsFrame(start, spacing, n, hole, pattern) ==
    [i \in 1..n |-> [t |-> start + (i - 1) * spacing,
                     v |-> IF i = hole THEN NaN ELSE Num(RsLevel(pattern, i))]]

RsInputs ==
    {RsFrame(start, spacing, n, hole, pattern) :
        start \in RsStarts, spacing \in RsSpacings, n \in 1..MaxObs,
        hole \in RsHoles, pattern \in RsPatterns}

\* a call of resample_chs or resample_noaa; the data is not from the future
RsInit ==
    /\ rsFn \in {"chs", "noaa"}
    /\ rsPc = "call"
    /\ rsTimestep \in {"hourly", "daily"}
    /\ rsIn \in RsInputs
    /\ rsToday \in {DayOf(rsIn[Len(rsIn)].t), DayOf(rsIn[Len(rsIn)].t) + 1}
    /\ rsDf = rsIn

\* resample_chs, timestep 'hourly' (chs.py:91-93)
ResampleChsHourly ==
    /\ rsFn = "chs"
    /\ rsPc = "call"
    /\ rsTimestep = "hourly"
    /\ rsDf' = HourlyFirst(rsDf)
    /\ rsPc' = "done"
    /\ UNCHANGED <<rsFn, rsTimestep, rsIn, rsToday, cleanVars, fetchVars, batchVars>>

\* resample_chs, timestep 'daily' (chs.py:95-117)
ResampleChsDaily ==
    /\ rsFn = "chs"
    /\ rsPc = "call"
    /\ rsTimestep = "daily"
    /\ rsDf' = ResampleChsDailyOf(rsDf)
    /\ rsPc' = "done"
    /\ UNCHANGED <<rsFn, rsTimestep, rsIn, rsToday, cleanVars, fetchVars, batchVars>>

\* resample_noaa: df = df.resample('1H').first() (noaa.py:13-16)
ResampleNoaaHourly ==
    /\ rsFn = "noaa"
    /\ rsPc = "call"
    /\ rsDf' = HourlyFirst(rsDf)
    /\ rsPc' = IF rsTimestep = "daily" THEN "noaa_hourly" ELSE "done"
    /\ UNCHANGED <<rsFn, rsTimestep, rsIn, rsToday, cleanVars, fetchVars, batchVars>>

\* resample_noaa: compute daily from hourly (noaa.py:19-30)
ResampleNoaaDaily ==
    /\ rsPc = "noaa_hourly"
    /\ rsDf' = UpToYesterday(DailyByDate(ShiftBack(rsDf)), rsToday)
    /\ rsPc' = "done"
    /\ UNCHANGED <<rsFn, rsTimestep, rsIn, rsToday, cleanVars, fetchVars, batchVars>>

RsNext ==
    \/ ResampleChsHourly
    \/ ResampleChsDaily
    \/ ResampleNoaaHourly
    \/ ResampleNoaaDaily

----------------------------------------------------------------------------
\* The upstream services and the frame the fetch loops fill

\* EST_OFFSET = timedelta(hours=-5)
EST_OFFSET == Hours(-5)

\* strftime("%Y-%m-%d %H:%M:00"): the seconds are dropped
FormatMinute(t) == (t \div SecondsPerMinute) * SecondsPerMinute

\* strftime('%Y%m%d'): the date alone
FormatDate(t) == t \div SecondsPerDay

Min(a, b) == IF a <= b THEN a ELSE b

\* The upstream series is fully available: one reading every UpstreamStep
\* seconds, whose level depends on its time.
UpstreamStep(provider) == IF provider = "CHS" THEN Hours(1) \div 2 ELSE Hours(12)

UpstreamLevel(t) == 7400 + ((t \div Hours(1)) % 7)

\* the timestamps of the upstream readings between lo and hi, both included
UpstreamBetween(step, lo, hi) ==
    {k * step : k \in ((lo + step - 1) \div step)..(hi \div step)}

\* soap_client.service.search(dateMin, dateMax): the readings of the window
ChsSearch(dateMin, dateMax) == UpstreamBetween(UpstreamStep("CHS"), dateMin, dateMax)

\* getWaterLevelRawSixMin(beginDate, endDate): the readings of the days
\* beginDate .. endDate, whole days
NoaaSearch(beginDate, endDate) ==
    UpstreamBetween(UpstreamStep("NOAA"), Days(beginDate), Days(endDate + 1) - 1)

\* ':00:00' in boundaryDate (and ':15:00', ':30:00', ':45:00' for '15-min'):
\* whether a CHS record is kept for the timestep
ChsKeeps(timestep, t) ==
    CASE timestep \in {"hourly", "daily"} -> t % SecondsPerHour = 0
      [] timestep = "15-min" -> t % (15 * SecondsPerMinute) = 0
      [] OTHER -> TRUE

\* (an assignment that always adds a row)
AlwaysNewRow(frame, t) == TRUE

\* df.at[t, stn_ID] = v adds a new last row only when no row is labelled t;
\* otherwise it overwrites that row
IsNewRow(frame, t) == \A i \in 1..Len(frame) : frame[i].t # t

\* the k-th smallest element of a set of numbers
Kth(S, k) == CHOOSE x \in S : Cardinality({y \in S : y < x}) = k - 1

\* The records of one response, which come in ascending order of time, each
\* assigned with df.at[t + shift, stn_ID] = level: the rows already labelled
\* are overwritten, the others are added at the end in the order they come.
InsertAll(frame, times, shift) ==
    LET new == {t \in times : IsNewRow(frame, t + shift)}
        old == [i \in 1..Len(frame) |->
                  IF frame[i].t - shift \in times
                  THEN [t |-> frame[i].t, v |-> Num(UpstreamLevel(frame[i].t - shift))]
                  ELSE frame[i]]
    IN  old \o [k \in 1..Cardinality(new) |->
                  [t |-> Kth(new, k) + shift, v |-> Num(UpstreamLevel(Kth(new, k)))]]

\* delta = timedelta(days=1)
delta == Days(1)

\* max_number_of_days = 30
max_number_of_days == 30

\* (a window loop that skips a day)
SkipADay(t) == t + delta + delta

\* the window start after one iteration of the CHS loop: start_utc += delta
ChsNextStart(t) == t + delta

\* the window end of the NOAA loop, which is the next window's start
NoaaFetchEnd(t, end) == Min(t + Days(max_number_of_days), end)

\* df[start:end]: the rows labelled from start to end, both included
SliceRows(frame, lo, hi) == SelectSeq(frame, LAMBDA row : lo <= row.t /\ row.t <= hi)

\* if cd: a number other than 0 is true, nan is true, None and 0 are false
Truthy(cd) == cd.given /\ cd.val # Num(0)

\* df['metres'] + cd
AddCd(frame, cd) ==
    [i \in 1..Len(frame) |-> [t |-> frame[i].t, v |-> Add(frame[i].v, cd.val)]]

----------------------------------------------------------------------------
\* fetch_chs_levels and fetch_noaa_levels, one action per step

Raised(error) == [kind |-> "raised", error |-> error]

ReturnedNone == [kind |-> "None"]

Returned(frame, label) == [kind |-> "df", rows |-> frame, column |-> label]

\* convert_to_utc of a naive datetime (the callers pass naive datetimes):
\* dt + UTC_OFFSET, the offset computed once at import
convert_to_utc(dt) == dt + fEnv.UTC_OFFSET

\* whether the upstream call or the mapping of window k fails
FailsAt(k) == fEnv.fault \in {"query", "record"} /\ fEnv.at = k

\* a daily frame (rows labelled by day number) labelled by the day's midnight
AtMidnight(daily) == [i \in 1..Len(daily) |-> [t |-> Days(daily[i].t), v |-> daily[i].v]]

\* chs.py:180-184: the station id must be a str of length 5
FetchChsValidate ==
    /\ fPc = "validate"
    /\ IF fArgs.stn_ID.type = "str" /\ Len(fArgs.stn_ID.chars) = 5
       THEN fPc' = "wsdl" /\ UNCHANGED fResult
       ELSE fPc' = "raised" /\ fResult' = Raised("ValueError")
    /\ UNCHANGED <<fArgs, fEnv, start_utc, end_utc, fDf, column, windows, calls, stages>>
    /\ UNCHANGED <<cleanVars, rsVars, batchVars>>

\* chs.py:186, chs_wsdl (125-152): the client and the station list; outside
\* the try, so a failure leaves fetch_chs_levels as an exception
FetchChsWsdl ==
    /\ fPc = "wsdl"
    /\ IF fEnv.fault = "client"
       THEN /\ calls' = calls + 1
            /\ fPc' = "raised"
            /\ fResult' = Raised("Exception")
       ELSE /\ calls' = calls + 2
            /\ fPc' = "station"
            /\ UNCHANGED fResult
    /\ UNCHANGED <<fArgs, fEnv, start_utc, end_utc, fDf, column, windows, stages>>
    /\ UNCHANGED <<cleanVars, rsVars, batchVars>>

\* chs.py:189-195: a station the service does not list gives None
FetchChsStation ==
    /\ fPc = "station"
    /\ IF fEnv.listed
       THEN fPc' = "setup" /\ UNCHANGED fResult
       ELSE fPc' = "return" /\ fResult' = ReturnedNone
    /\ UNCHANGED <<fArgs, fEnv, start_utc, end_utc, fDf, column, windows, calls, stages>>
    /\ UNCHANGED <<cleanVars, rsVars, batchVars>>

\* chs.py:197-238: the range in UTC (a day more for 'daily'), the empty frame
FetchChsSetup ==
    /\ fPc = "setup"
    /\ start_utc' = convert_to_utc(fArgs.start)
    /\ end_utc' = convert_to_utc(fArgs.end)
                    + (IF fArgs.timestep = "daily" THEN Hours(24) ELSE 0)
    /\ fDf' = <<>>
    /\ stages' = Append(stages, "normalize")
    /\ fPc' = "loop"
    /\ UNCHANGED <<fArgs, fEnv, column, windows, calls, fResult>>
    /\ UNCHANGED <<cleanVars, rsVars, batchVars>>

\* chs.py:240-307: one iteration of the window loop; a failure is caught by
\* the except of line 322 and the fetch returns None
FetchChsWindow ==
    /\ fPc = "loop"
    /\ fArgs.provider = "CHS"
    /\ start_utc <= end_utc
    /\ LET dateMin == FormatMinute(start_utc)
           dateMax == FormatMinute(Min(end_utc, start_utc + delta))
           kept    == {t \in ChsSearch(dateMin, dateMax) : ChsKeeps(fArgs.timestep, t)}
       IN  /\ windows' = Append(windows, [lo |-> dateMin, hi |-> dateMax])
           /\ calls' = calls + 1
           /\ IF FailsAt(Len(windows) + 1)
              THEN /\ fPc' = "return"
                   /\ fResult' = ReturnedNone
                   /\ UNCHANGED <<start_utc, fDf, stages>>
              ELSE /\ fDf' = InsertAll(fDf, kept, EST_OFFSET)
                   /\ start_utc' = ChsNextStart(start_utc)
                   /\ stages' = IF windows = <<>> THEN Append(stages, "fetch") ELSE stages
                   /\ UNCHANGED <<fPc, fResult>>
    /\ UNCHANGED <<fArgs, fEnv, end_utc, column>>
    /\ UNCHANGED <<cleanVars, rsVars, batchVars>>

\* chs.py:311-316: after the loop: the daily resample and the slice
\* df[start:end]. resample of a frame without rows raises (its index is no
\* DatetimeIndex), which the except of line 322 turns into None.
FetchChsResample ==
    /\ fPc = "loop"
    /\ fArgs.provider = "CHS"
    /\ ~(start_utc <= end_utc)
    /\ IF fArgs.timestep = "daily" /\ fDf = <<>>
       THEN /\ fPc' = "return"
            /\ fResult' = ReturnedNone
            /\ UNCHANGED <<fDf, stages>>
       ELSE LET resampled == IF fArgs.timestep = "daily"
                             THEN AtMidnight(ResampleChsDailyOf(fDf))
                             ELSE fDf
            IN  /\ fDf' = SliceRows(resampled, fArgs.start, fArgs.end)
                /\ stages' = IF fArgs.timestep = "daily"
                             THEN Append(stages, "resample") ELSE stages
                /\ fPc' = "datum"
                /\ UNCHANGED fResult
    /\ UNCHANGED <<fArgs, fEnv, start_utc, end_utc, column, windows, calls>>
    /\ UNCHANGED <<cleanVars, rsVars, batchVars>>

\* chs.py:318-326: the datum correction, `if cd:`, and the return
FetchChsDatum ==
    /\ fPc = "datum"
    /\ LET final == IF Truthy(fArgs.cd) THEN AddCd(fDf, fArgs.cd) ELSE fDf
           label == IF Truthy(fArgs.cd) THEN "metres" ELSE column
       IN  /\ fDf' = final
           /\ column' = label
           /\ stages' = IF Truthy(fArgs.cd) THEN Append(stages, "datum") ELSE stages
           /\ fResult' = Returned(final, label)
    /\ fPc' = "return"
    /\ UNCHANGED <<fArgs, fEnv, start_utc, end_utc, windows, calls>>
    /\ UNCHANGED <<cleanVars, rsVars, batchVars>>

\* noaa.py:67-79: the client and the empty frame; nothing validates stn_ID and
\* nothing catches a failure
FetchNoaaClient ==
    /\ fPc = "client"
    /\ calls' = calls + 1
    /\ IF fEnv.fault = "client"
       THEN /\ fPc' = "raised"
            /\ fResult' = Raised("Exception")
            /\ UNCHANGED <<start_utc, end_utc, fDf>>
       ELSE /\ fPc' = "loop"
            /\ start_utc' = fArgs.start
            /\ end_utc' = fArgs.end
            /\ fDf' = <<>>
            /\ UNCHANGED fResult
    /\ UNCHANGED <<fArgs, fEnv, column, windows, stages>>
    /\ UNCHANGED <<cleanVars, rsVars, batchVars>>

\* noaa.py:82-103: one iteration of the window loop
FetchNoaaWindow ==
    /\ fPc = "loop"
    /\ fArgs.provider = "NOAA"
    /\ start_utc < end_utc
    /\ LET fetch_end == NoaaFetchEnd(start_utc, end_utc)
           beginDate == FormatDate(start_utc)
           endDate   == FormatDate(fetch_end)
       IN  /\ windows' = Append(windows, [lo |-> beginDate, hi |-> endDate])
           /\ calls' = calls + 1
           /\ IF FailsAt(Len(windows) + 1)
              THEN /\ fPc' = "raised"
                   /\ fResult' = Raised("Exception")
                   /\ UNCHANGED <<start_utc, fDf, stages>>
              ELSE /\ start_utc' = fetch_end
                   /\ fDf' = InsertAll(fDf, NoaaSearch(beginDate, endDate), 0)
                   /\ stages' = IF windows = <<>> THEN Append(stages, "fetch") ELSE stages
                   /\ UNCHANGED <<fPc, fResult>>
    /\ UNCHANGED <<fArgs, fEnv, end_utc, column>>
    /\ UNCHANGED <<cleanVars, rsVars, batchVars>>

\* noaa.py:105-107: resample_noaa and the return; resample of a frame without
\* rows raises, and nothing catches it
FetchNoaaFinish ==
    /\ fPc = "loop"
    /\ fArgs.provider = "NOAA"
    /\ ~(start_utc < end_utc)
    /\ IF fArgs.timestep \in {"hourly", "daily"} /\ fDf = <<>>
       THEN /\ fPc' = "raised"
            /\ fResult' = Raised("TypeError")
            /\ UNCHANGED <<fDf, stages>>
       ELSE LET hourly == HourlyFirst(fDf)
                final  == CASE fArgs.timestep = "hourly" -> hourly
                            [] fArgs.timestep = "daily" ->
                                 AtMidnight(UpToYesterday(DailyByDate(ShiftBack(hourly)),
                                                          fEnv.today))
                            [] OTHER -> fDf
            IN  /\ fDf' = final
                /\ stages' = IF fArgs.timestep \in {"hourly", "daily"}
                             THEN Append(stages, "resample") ELSE stages
                /\ fPc' = "return"
                /\ fResult' = Returned(final, "stn_ID")
    /\ UNCHANGED <<fArgs, fEnv, start_utc, end_utc, column, windows, calls>>
    /\ UNCHANGED <<cleanVars, rsVars, batchVars>>

FetchNext ==
    \/ FetchChsValidate
    \/ FetchChsWsdl
    \/ FetchChsStation
    \/ FetchChsSetup
    \/ FetchChsWindow
    \/ FetchChsResample
    \/ FetchChsDatum
    \/ FetchNoaaClient
    \/ FetchNoaaWindow
    \/ FetchNoaaFinish

\* The calls a single fetch is checked for

\* the longest CHS range, in days, and the longest NOAA range, in 30-day windows
ChsMaxDays == 3

NoaaMaxWindows == 3

Digits(n) == [i \in 1..n |-> "9"]

\* station ids: of the provider's shape, too short, not numeric, not a str
ChsIds == {[type |-> "str", chars |-> Digits(5)],
           [type |-> "str", chars |-> Digits(4)],
           [type |-> "str", chars |-> <<"1", "5", "9", "3", "x">>],
           [type |-> "int", chars |-> Digits(5)]}

NoaaIds == {[type |-> "str", chars |-> Digits(7)],
            [type |-> "str", chars |-> Digits(3)]}

\* cd: not given (None), nan (an empty cell of the catalog), 0, 74.25 m
NoCd == [given |-> FALSE, val |-> NaN]

CdValues == {NoCd, [given |-> TRUE, val |-> NaN],
             [given |-> TRUE, val |-> Num(0)], [given |-> TRUE, val |-> Num(7425)]}

ChsCall(id, s, e, ts, cd) ==
    [provider |-> "CHS", stn_ID |-> id, start |-> s, end |-> e, timestep |-> ts, cd |-> cd]

NoaaCall(id, s, e, ts) ==
    [provider |-> "NOAA", stn_ID |-> id, start |-> s, end |-> e, timestep |-> ts, cd |-> NoCd]

\* ranges of 2 .. ChsMaxDays days (and some hours more), from midnight or not,
\* for every timestep and cd; every station id over one range
ChsCalls ==
    {ChsCall([type |-> "str", chars |-> Digits(5)], s, s + Days(d) + extra, ts, cd) :
        s \in {Days(2), Days(2) + Hours(9) + 1050},
        d \in 2..ChsMaxDays,
        extra \in {0, Hours(5) + 40},
        ts \in {"hourly", "daily", "15-min", "default"},
        cd \in CdValues}
    \cup {ChsCall(id, Days(2), Days(4), "hourly", NoCd) : id \in ChsIds}

\* ranges of 2 .. NoaaMaxWindows windows of 30 days (and some days more) for the
\* default timestep, a range of 3 days for 'hourly' and 'daily'
NoaaCalls ==
    {NoaaCall(id, s, s + Days(max_number_of_days * w) + extra, "default") :
        id \in NoaaIds,
        s \in {Days(2), Days(2) + Hours(10) + 1800},
        w \in 2..NoaaMaxWindows,
        extra \in {0, Days(1), Days(15) + Hours(5)}}
    \cup {NoaaCall(id, s, s + Days(3) + Hours(7), ts) :
        id \in NoaaIds,
        s \in {Days(2), Days(2) + Hours(10) + 1800},
        ts \in {"hourly", "daily"}}

\* UTC_OFFSET = datetime.utcnow() - datetime.now(): the zone's offset (EST,
\* EDT), or a moment less when the clock moves between the two reads
UtcOffsets == {Hours(5), Hours(5) - 1, Hours(4)}

Env(off, today, listed, fault, at) ==
    [UTC_OFFSET |-> off, today |-> today, listed |-> listed, fault |-> fault, at |-> at]

\* what can fail: the client set-up, the query of window 1, a record of window 2
Faults == {<<"client", 0>>, <<"query", 1>>, <<"record", 2>>}

\* the surroundings of a call: nothing fails, under each offset; or one thing
\* fails; or the service does not list the station (CHS)
FetchEnvs(args) ==
    {Env(off, DayOf(args.end), TRUE, "none", 0) :
        off \in (IF args.provider = "CHS" THEN UtcOffsets ELSE {Hours(5)})}
    \cup {Env(Hours(5), DayOf(args.end), TRUE, f[1], f[2]) : f \in Faults}
    \cup (IF args.provider = "CHS"
          THEN {Env(Hours(5), DayOf(args.end), FALSE, "none", 0)} ELSE {})

\* a fetch called with `args` in the surroundings `env`
FetchCalled(args, env) ==
    /\ fArgs = args
    /\ fEnv = env
    /\ fPc = IF args.provider = "CHS" THEN "validate" ELSE "client"
    /\ start_utc = 0
    /\ end_utc = 0
    /\ fDf = <<>>
    /\ column = "stn_ID"
    /\ windows = <<>>
    /\ calls = 0
    /\ stages = <<>>
    /\ fResult = [kind |-> "pending"]

FetchInit ==
    \E args \in ChsCalls \cup NoaaCalls :
        \E env \in FetchEnvs(args) : FetchCalled(args, env)

----------------------------------------------------------------------------
\* stns_data_to_db and fetch_stn_data (src/main.py:115-179), one action per step

\* a table of the store that does not exist yet
NoTable == [exists |-> FALSE, rows |-> <<>>]

\* a datetime as the store holds it and as a query parameter is bound: the
\* text 'YYYY-MM-DD HH:MM:SS', here its fields <<date, HH, MM, SS>>
FormatIso(t) ==
    <<DayOf(t), (t % SecondsPerDay) \div SecondsPerHour,
      (t % SecondsPerHour) \div SecondsPerMinute, t % SecondsPerMinute>>

\* text comparison a <= b of two such texts: field by field from the left
TextLe(a, b) ==
    \/ a = b
    \/ \E k \in 1..Len(a) : a[k] < b[k] /\ \A j \in 1..(k - 1) : a[j] = b[j]

\* the rows of a frame as to_sql inserts them: the index column 'datetime'
\* and the value column
SqlRows(frame) ==
    [i \in 1..Len(frame) |-> [datetime |-> FormatIso(frame[i].t), value |-> frame[i].v]]

\* df.to_sql(name, con, if_exists='append', index=True): the table is created
\* when it does not exist, and the frame's rows are added after the rows it has
ToSql(store, name, frame) ==
    [n \in DOMAIN store |->
        IF n = name
        THEN [exists |-> TRUE, rows |-> store[n].rows \o SqlRows(frame)]
        ELSE store[n]]

\* an argument of get_datatable that is not given (None)
NoDate == [given |-> FALSE, val |-> 0]

Date(t) == [given |-> TRUE, val |-> t]

\* main.py:207-224: the WHERE clause get_datatable builds from start and end;
\* `if start:` / `elif end:` are true of every datetime
WhereClause(row, start, end) ==
    /\ start.given => TextLe(FormatIso(start.val), row.datetime)
    /\ end.given => TextLe(row.datetime, FormatIso(end.val))

\* main.py:183-231: get_datatable(con, table_name, start, end)
get_datatable(store, table_name, start, end) ==
    IF table_name \in DOMAIN store /\ store[table_name].exists
    THEN [kind |-> "df", table_name |-> table_name, start |-> start, end |-> end,
          rows |-> SelectSeq(store[table_name].rows, LAMBDA row : WhereClause(row, start, end))]
    ELSE [kind |-> "None", table_name |-> table_name, start |-> start, end |-> end]

\* main.py:141-149: the call of the provider's fetcher, timestep 'hourly',
\* cd = stn['cd'] for CHS
StnArgs(stn, start, end) ==
    IF stn.provider = "CHS"
    THEN [provider |-> "CHS", stn_ID |-> stn.id, start |-> start, end |-> end,
          timestep |-> "hourly", cd |-> stn.cd]
    ELSE [provider |-> "NOAA", stn_ID |-> stn.id, start |-> start, end |-> end,
          timestep |-> "hourly", cd |-> [given |-> FALSE, val |-> NaN]]

\* main.py:171-176, 139-149: the next station of the loop, and the call of its
\* fetcher; no try encloses the call, here or in fetch_stn_data
StnsFetch ==
    /\ bPc = "fetch"
    /\ ix <= Len(stations)
    /\ fArgs' = StnArgs(stations[ix], bRange.start, bRange.end)
    /\ fEnv' = upstream[ix]
    /\ fPc' = IF stations[ix].provider = "CHS" THEN "validate" ELSE "client"
    /\ start_utc' = 0
    /\ end_utc' = 0
    /\ fDf' = <<>>
    /\ column' = "stn_ID"
    /\ windows' = <<>>
    /\ calls' = 0
    /\ stages' = <<>>
    /\ fResult' = [kind |-> "pending"]
    /\ bPc' = "fetching"
    /\ UNCHANGED <<stations, upstream, bRange, ix, dfs, tables, runs, written, datatable>>
    /\ UNCHANGED <<cleanVars, rsVars>>

\* main.py:146-153, 178-179: the fetcher returned; fetch_stn_data passes the
\* frame or None on, a frame is appended to the station's table, and the loop
\* goes on to the next station
StnsStore ==
    /\ bPc = "fetching"
    /\ fPc = "return"
    /\ dfs' = Append(dfs, fResult.kind)
    /\ tables' = IF fResult.kind = "df"
                 THEN ToSql(tables, stations[ix].id.chars, fResult.rows)
                 ELSE tables
    /\ written' = IF fResult.kind = "df"
                  THEN [written EXCEPT ![stations[ix].id.chars] = Append(@, fResult.rows)]
                  ELSE written
    /\ ix' = ix + 1
    /\ bPc' = IF ix + 1 > Len(stations) THEN "done" ELSE "fetch"
    /\ UNCHANGED <<stations, upstream, bRange, runs, datatable>>
    /\ UNCHANGED <<cleanVars, rsVars, fetchVars>>

\* the fetcher raised: the exception leaves fetch_stn_data and stns_data_to_db,
\* neither of which has a try, and the loop is over
StnsRaise ==
    /\ bPc = "fetching"
    /\ fPc = "raised"
    /\ bPc' = "raised"
    /\ UNCHANGED <<stations, upstream, bRange, ix, dfs, tables, runs, written, datatable>>
    /\ UNCHANGED <<cleanVars, rsVars, fetchVars>>

\* the most batch runs, and how much later than the last one a run starts: a
\* day (the ranges overlap by 2 days) or 4 days (they do not overlap)
MaxRuns == 2

Laters == {Days(1), Days(4)}

\* main.py:250-261: the script is run again, later, over the same catalog and
\* the same store: end = now, start = 3 days before
MainAgain ==
    /\ bPc = "done"
    /\ runs < MaxRuns
    /\ \E later \in Laters :
        /\ bRange' = [start |-> bRange.start + later, end |-> bRange.end + later]
        /\ upstream' = [i \in 1..Len(upstream) |->
                            [upstream[i] EXCEPT !.today = DayOf(bRange.end + later)]]
    /\ runs' = runs + 1
    /\ ix' = 1
    /\ dfs' = <<>>
    /\ bPc' = "fetch"
    /\ datatable' = [kind |-> "pending"]
    /\ UNCHANGED <<stations, tables, written>>
    /\ UNCHANGED <<cleanVars, rsVars, fetchVars>>

\* main.py:183-231: a station's table is read back after a run, whole or from
\* the run's start, and to its end or to a day before it
GetDatatable ==
    /\ bPc = "done"
    /\ \E i \in 1..Len(stations) :
        \E start \in {NoDate, Date(bRange.start)} :
            \E end \in {NoDate, Date(bRange.end - Days(1))} :
                datatable' = get_datatable(tables, stations[i].id.chars, start, end)
    /\ UNCHANGED <<bPc, stations, upstream, bRange, ix, dfs, tables, runs, written>>
    /\ UNCHANGED <<cleanVars, rsVars, fetchVars>>

BatchNext ==
    \/ StnsFetch
    \/ FetchNext
    \/ StnsStore
    \/ StnsRaise
    \/ MainAgain
    \/ GetDatatable

\* The batches checked

\* the longest catalog
MaxStations == 2

Digit(i) == <<"0", "1", "2", "3", "4", "5", "6", "7", "8", "9">>[i + 1]

\* the station at position i of the catalog: ids are unique in the catalog
\* (stations.set_index('id')), 5 digits for CHS and 7 for NOAA, read as str
Stn(provider, i) ==
    IF provider = "CHS"
    THEN [id |-> [type |-> "str", chars |-> <<"1", "0", "0", "5", Digit(i)>>],
          provider |-> "CHS", cd |-> [given |-> TRUE, val |-> Num(7425)]]
    ELSE [id |-> [type |-> "str", chars |-> <<"9", "0", "1", "4", "0", "7", Digit(i)>>],
          provider |-> "NOAA", cd |-> [given |-> TRUE, val |-> NaN]]

\* what can fail in a batch, whose range of 3 days is one window for NOAA: the
\* client set-up, the query of window 1, a record of window 1
StnFaults == {<<"client", 0>>, <<"query", 1>>, <<"record", 1>>}

\* what a station's fetch meets: nothing fails; one thing fails; the service
\* does not list the station (CHS)
StnEnvs(provider, today) ==
    {Env(Hours(5), today, TRUE, "none", 0)}
    \cup {Env(Hours(5), today, TRUE, f[1], f[2]) : f \in StnFaults}
    \cup (IF provider = "CHS" THEN {Env(Hours(5), today, FALSE, "none", 0)} ELSE {})

\* main.py:250-251: end = datetime.now(), start = datetime.today() - 3 days
Now == Days(5) + Hours(14) + 1234

Lookback == Days(3)

BatchInit ==
    \E n \in 1..MaxStations :
        \E providers \in [1..n -> {"CHS", "NOAA"}] :
            \E envs \in [1..n -> UNION {StnEnvs(p, DayOf(Now)) : p \in {"CHS", "NOAA"}}] :
                /\ \A i \in 1..n : envs[i] \in StnEnvs(providers[i], DayOf(Now))
                /\ stations = [i \in 1..n |-> Stn(providers[i], i)]
                /\ upstream = envs
                /\ bRange = [start |-> Now - Lookback, end |-> Now]
                /\ ix = 1
                /\ bPc = "fetch"
                /\ dfs = <<>>
                /\ tables = [name \in {Stn(providers[i], i).id.chars : i \in 1..n} |-> NoTable]
                /\ runs = 1
                /\ written = [name \in {Stn(providers[i], i).id.chars : i \in 1..n} |-> <<>>]
                /\ datatable = [kind |-> "pending"]

----------------------------------------------------------------------------
\* Specifications: one per part of the program, the other parts idle

InitClean ==
    /\ CleanInit
    /\ RsIdle
    /\ FetchIdle
    /\ BatchIdle

SpecClean == InitClean /\ [][CleanNext]_vars

InitResample ==
    /\ RsInit
    /\ CleanIdle
    /\ FetchIdle
    /\ BatchIdle

SpecResample == InitResample /\ [][RsNext]_vars

InitFetch ==
    /\ FetchInit
    /\ CleanIdle
    /\ RsIdle
    /\ BatchIdle

SpecFetch == InitFetch /\ [][FetchNext]_vars

\* the fetch variables hold the first station's fetch once StnsFetch has run
InitBatch ==
    /\ BatchInit
    /\ CleanIdle
    /\ RsIdle
    /\ FetchIdle

SpecBatch == InitBatch /\ [][BatchNext]_vars

----------------------------------------------------------------------------
\* Claims about clean_CHS

Abs(x) == IF x < 0 THEN 0 - x ELSE x

\* s is strictly increasing, or strictly decreasing, with no missing value
StrictlyMonotone(s) ==
    /\ \A i \in 1..Len(s) : ~IsNaN(s[i])
    /\ \/ \A i \in 2..Len(s) : s[i - 1][1] < s[i][1]
       \/ \A i \in 2..Len(s) : s[i - 1][1] > s[i][1]

\* every value of s lies strictly inside mean +/- 4*stdev (no band exists for
\* fewer than two values)
InsideBand(s) ==
    LET st == SeriesStats(s)
    IN  st.n >= 2 =>
            \A i \in 1..Len(s) : BelowUpper(s[i], st) /\ AboveLower(s[i], st)

\* a clean input: length >= 1, monotone without repeats, every step strictly
\* inside (-2.5 m, +2.5 m), every value inside the band
CleanSeries(s) ==
    /\ Len(s) >= 1
    /\ StrictlyMonotone(s)
    /\ \A i \in 2..Len(s) : Abs(s[i][1] - s[i - 1][1]) < max_chg
    /\ InsideBand(s)

\* C4: clean_CHS returns a clean input series unchanged (no entry nulled,
\* the first and second entries included).
C4_CleanInputUnchanged ==
    (cleanPc = "done" /\ CleanSeries(cleanIn)) => timeseries = cleanIn

\* C5: the repeated-value pass nulls the value at position i if and only if
\* both its 1-step and its 2-step difference are exactly zero.
C5_RepeatedNullsIffBothZero ==
    Len(passes) >= 1 =>
        \A i \in 1..Len(cleanIn) :
            (~IsNaN(cleanIn[i]) /\ IsNaN(passes[1][i]))
                <=> (Diff(cleanIn, 1)[i] = Num(0) /\ Diff(cleanIn, 2)[i] = Num(0))

\* the value at i is present before a statement and null after it
NulledBy(before, after, i) == ~IsNaN(before[i]) /\ IsNaN(after[i])

\* C6: the jump pass nulls a value if and only if its difference from its
\* immediate predecessor is greater than +2.5 m or less than -2.5 m; a step
\* of exactly 2.5 m is retained, and so is a value whose predecessor is
\* missing or was nulled before.
C6_JumpNullsIffBeyondMax ==
    Len(passes) >= 3 =>
        \A i \in 1..Len(cleanIn) :
            /\ NulledBy(passes[1], passes[2], i)
                   <=> GtC(Diff(passes[1], 1)[i], max_chg)
            /\ NulledBy(passes[2], passes[3], i)
                   <=> LtC(Diff(passes[2], 1)[i], -1 * max_chg)

----------------------------------------------------------------------------
\* Claims about the resamplers

\* the hourly buckets of day d in which the input has data
HoursWithData(df, d) ==
    {HourOf(df[i].t) : i \in Valid(df, RowsOfDay(df, d))}

\* C8: in the CHS daily resample a day's output is non-null only if at least
\* 18 distinct hourly buckets of the day have data; with 18 or more it is the
\* rounded mean of the day's values, with fewer it is null.
C8_DailyNeeds18HourlyBuckets ==
    (rsFn = "chs" /\ rsTimestep = "daily" /\ rsPc = "done") =>
        \A i \in 1..Len(rsDf) :
            LET d == rsDf[i].t
            IN  IF Cardinality(HoursWithData(rsIn, d)) >= MinHours
                THEN rsDf[i].v = DayMean(rsIn, d)
                ELSE IsNaN(rsDf[i].v)

\* the value of the hourly bucket h of the input: its first non-null
\* observation, nan when it has none
HourValue(df, h) ==
    LET rows == Valid(df, RowsOfHour(df, h))
    IN  IF rows = {} THEN NaN ELSE df[First(rows)].v

RECURSIVE SumHours(_, _)
SumHours(df, hours) ==
    IF hours = {} THEN 0
    ELSE LET h == CHOOSE x \in hours : TRUE
         IN  HourValue(df, h)[1] + SumHours(df, hours \ {h})

\* the hourly buckets averaged into day d: hours 1..24 of the day (01:00 of
\* the day up to 00:00 of the next) that hold a value, the very first bucket of
\* the series excepted (shifted back, its value falls before the first row)
HoursOfDay(df, d) ==
    {h \in (d * HoursPerDay + 1)..(d * HoursPerDay + HoursPerDay) :
        h > HourOf(df[1].t) /\ ~IsNaN(HourValue(df, h))}

MeanOfHours1To24(df, d) ==
    RoundedMean(SumHours(df, HoursOfDay(df, d)), Cardinality(HoursOfDay(df, d)))

NoaaDailyDone == rsFn = "noaa" /\ rsTimestep = "daily" /\ rsPc = "done"

\* C9: in the NOAA daily resample the value of day N is the mean of the
\* hourly values of hours 1..24 of day N (hour 24, at 00:00 of day N+1,
\* counts for day N and not for day N+1), every day of the data before today
\* has a row, and today never has one.
C9_NoaaDailyShift ==
    NoaaDailyDone =>
        /\ \A i \in 1..Len(rsDf) :
            /\ rsDf[i].t # rsToday
            /\ rsDf[i].v = MeanOfHours1To24(rsIn, rsDf[i].t)
        /\ \A d \in DayBuckets(rsIn) :
            d < rsToday => \E i \in 1..Len(rsDf) : rsDf[i].t = d

\* a daily NOAA result with non-null rows for days N and N+1, from an input
\* that has an observation at hour 24 of day N and observations today
C9_Witness ==
    /\ NoaaDailyDone
    /\ \E i \in 1..Len(rsDf) :
        /\ i + 1 <= Len(rsDf)
        /\ ~IsNaN(rsDf[i].v)
        /\ ~IsNaN(rsDf[i + 1].v)
        /\ rsDf[i + 1].t = rsDf[i].t + 1
        /\ \E j \in 1..Len(rsIn) :
            /\ rsIn[j].t = Days(rsDf[i].t + 1)
            /\ ~IsNaN(rsIn[j].v)
    /\ \E j \in 1..Len(rsIn) : DayOf(rsIn[j].t) = rsToday /\ ~IsNaN(rsIn[j].v)

----------------------------------------------------------------------------
\* Claims about the window loops

\* the loop has ended (no failure: a failure leaves the loop by return or raise)
ChsLoopOver == fArgs.provider = "CHS" /\ fPc = "loop" /\ ~(start_utc <= end_utc)

NoaaLoopOver == fArgs.provider = "NOAA" /\ fPc = "loop" /\ ~(start_utc < end_utc)

\* the range the loop is to cover
RangeStart == IF fArgs.provider = "CHS" THEN convert_to_utc(fArgs.start) ELSE fArgs.start

RangeEnd ==
    IF fArgs.provider = "CHS"
    THEN convert_to_utc(fArgs.end) + (IF fArgs.timestep = "daily" THEN Hours(24) ELSE 0)
    ELSE fArgs.end

\* the upstream timestamps of the range that the timestep asks for, and the
\* distance between two of them
Wanted ==
    IF fArgs.provider = "CHS"
    THEN {t \in UpstreamBetween(UpstreamStep("CHS"), RangeStart, RangeEnd) :
            ChsKeeps(fArgs.timestep, t)}
    ELSE UpstreamBetween(UpstreamStep("NOAA"), RangeStart, RangeEnd)

GridStep ==
    IF fArgs.provider = "CHS" /\ fArgs.timestep \in {"hourly", "daily"}
    THEN Hours(1) ELSE UpstreamStep(fArgs.provider)

\* the label a timestamp gets in the frame
LabelOf(t) == IF fArgs.provider = "CHS" THEN t + EST_OFFSET ELSE t

\* the length of a window and the place of a time, as the queries carry them
WindowLength == IF fArgs.provider = "CHS" THEN delta ELSE max_number_of_days

Sent(t) == IF fArgs.provider = "CHS" THEN FormatMinute(t) ELSE FormatDate(t)

\* the number of windows a range of this length needs at most
WindowsNeeded ==
    IF fArgs.provider = "CHS"
    THEN (RangeEnd - RangeStart) \div delta + 1
    ELSE (RangeEnd - RangeStart + Days(max_number_of_days) - 1) \div Days(max_number_of_days)

\* C7: the windows are issued in ascending order, each starts where the
\* previous one ended and is at most one window long, there are no more of
\* them than the range needs (the loop terminates), and when the loop is over
\* they cover the range: the frame holds exactly one row per wanted upstream
\* timestamp, with its level, and its rows follow each other one grid step
\* apart (no gap, no duplicate).
C7_WindowsStitch ==
        /\ \A k \in 1..Len(windows) :
            /\ windows[k].lo <= windows[k].hi
            /\ windows[k].hi - windows[k].lo <= WindowLength
            /\ k = 1 => windows[k].lo = Sent(RangeStart)
            /\ k > 1 => /\ windows[k].lo = windows[k - 1].hi
                        /\ windows[k].lo > windows[k - 1].lo
        /\ Len(windows) <= WindowsNeeded
        /\ (ChsLoopOver \/ NoaaLoopOver) =>
            /\ windows # <<>>
            /\ windows[Len(windows)].hi = Sent(RangeEnd)
            /\ \A t \in Wanted :
                /\ Cardinality({i \in 1..Len(fDf) : fDf[i].t = LabelOf(t)}) = 1
                /\ \A i \in 1..Len(fDf) :
                    fDf[i].t = LabelOf(t) => fDf[i].v = Num(UpstreamLevel(t))
            /\ \A i \in 1..(Len(fDf) - 1) : fDf[i + 1].t - fDf[i].t = GridStep

\* a CHS loop that is over after four windows or more, with a row that lies
\* on the border of two windows
C7_Witness ==
    /\ ChsLoopOver
    /\ Len(windows) >= 4
    /\ \E k \in 1..(Len(windows) - 1) :
        \E i \in 1..Len(fDf) : fDf[i].t = LabelOf(windows[k].hi)

----------------------------------------------------------------------------
\* Claims about a single fetch

AllDigits(chars) ==
    \A i \in 1..Len(chars) :
        chars[i] \in {"0", "1", "2", "3", "4", "5", "6", "7", "8", "9"}

\* a station id of the provider's shape: a string of 5 (CHS) or 7 (NOAA) digits
ValidShape(provider, id) ==
    /\ id.type = "str"
    /\ Len(id.chars) = (IF provider = "CHS" THEN 5 ELSE 7)
    /\ AllDigits(id.chars)

FetchOver == fPc \in {"return", "raised"}

\* C2: a fetch called with a station id that is not of the provider's shape
\* raises an input error, before any upstream service call is issued.
C2_BadIdRaisesBeforeAnyCall ==
    ~ValidShape(fArgs.provider, fArgs.stn_ID) =>
        /\ calls = 0
        /\ FetchOver => fResult = Raised("ValueError")

Before(stage1, stage2) ==
    \A j \in 1..Len(stages) :
        stages[j] = stage2 => \E i \in 1..(j - 1) : stages[i] = stage1

\* C3: a series that fetch_chs_levels returns went through the stages in the
\* order fetch, time normalisation, quality filter (clean_CHS), resample.
C3_ChsCleansBeforeResample ==
    (fArgs.provider = "CHS" /\ fResult.kind = "df") =>
        /\ \E i \in 1..Len(stages) : stages[i] = "clean"
        /\ Before("fetch", "clean")
        /\ Before("clean", "resample")

\* cd is a number (0 included); cd is not supplied (None, or the nan of an
\* empty catalog cell)
CdIsNumber == fArgs.cd.given /\ ~IsNaN(fArgs.cd.val)

\* C10: the datum step of fetch_chs_levels. With a numeric cd the value
\* column is renamed to 'metres' and every non-null returned value is the
\* resampled value plus cd; without a cd the values are returned unchanged.
C10_DatumCorrection ==
    [][(fPc = "datum" /\ fPc' = "return") =>
        IF CdIsNumber
        THEN /\ column' = "metres"
             /\ Len(fDf') = Len(fDf)
             /\ \A i \in 1..Len(fDf) :
                 /\ fDf'[i].t = fDf[i].t
                 /\ ~IsNaN(fDf'[i].v) => fDf'[i].v = Add(fDf[i].v, fArgs.cd.val)
        ELSE fDf' = fDf /\ column' = column]_vars

----------------------------------------------------------------------------
\* Claims about a batch

\* C1: in a batch over the catalog, an exception raised during the fetch of a
\* station never reaches the batch's caller: the station's result is null and
\* every station of the catalog is fetched.
C1_FetchFailureNeverAbortsBatch ==
    /\ bPc # "raised"
    /\ bPc = "done" =>
        /\ Len(dfs) = Len(stations)
        /\ \A i \in 1..Len(stations) : upstream[i].fault # "none" => dfs[i] = "None"

\* the entries written to a table so far that a read from `start` to `end`
\* asks for, as the store holds them
WrittenFor(name, start, end) ==
    UNION {{[datetime |-> FormatIso(frame[j].t), value |-> frame[j].v] :
                j \in {j \in 1..Len(frame) :
                          /\ start.given => start.val <= frame[j].t
                          /\ end.given => frame[j].t <= end.val}} :
           frame \in {written[name][k] : k \in 1..Len(written[name])}}

\* C11: after any sequence of batch runs, a station's table read back with
\* get_datatable for a date range has exactly the entries written for that
\* range: one row per timestamp, with the value that was written.
C11_RoundTrip ==
    datatable.kind = "df" =>
        /\ \A i, j \in 1..Len(datatable.rows) :
               datatable.rows[i].datetime = datatable.rows[j].datetime => i = j
        /\ {datatable.rows[i] : i \in 1..Len(datatable.rows)}
               = WrittenFor(datatable.table_name, datatable.start, datatable.end)

----------------------------------------------------------------------------
\* Claims about the passes of clean_CHS

\* the series a pass started from
BeforePass(k) == IF k = 1 THEN cleanIn ELSE passes[k - 1]

\* C12: across the passes of clean_CHS the nulled positions only grow: a
\* value null after one pass is null after every later pass, no pass changes
\* the value of an entry it retains, and every pass keeps the input's positions.
C12_PassesOnlyNull ==
    /\ \A k \in 1..Len(passes) :
        /\ Len(passes[k]) = Len(cleanIn)
        /\ \A i \in 1..Len(passes[k]) :
               \/ IsNaN(passes[k][i])
               \/ passes[k][i] = BeforePass(k)[i]
        /\ \A l \in k..Len(passes) : \A i \in 1..Len(passes[k]) :
               IsNaN(passes[k][i]) => IsNaN(passes[l][i])
        /\ \A i \in 1..Len(cleanIn) : IsNaN(cleanIn[i]) => IsNaN(passes[k][i])
    /\ cleanPc = "done" => timeseries = passes[Len(passes)]

\* all five passes have run on a series of which the repeated-value pass
\* nulled an entry, a jump pass nulled another, a bound pass nulled a third
\* that the jump passes had retained, and an entry is retained to the end
C12_Witness ==
    /\ cleanPc = "done"
    /\ Len(passes) = 5
    /\ \E i \in 1..Len(cleanIn) : ~IsNaN(cleanIn[i]) /\ IsNaN(passes[1][i])
    /\ \E i \in 1..Len(cleanIn) : ~IsNaN(passes[1][i]) /\ IsNaN(passes[3][i])
    /\ \E i \in 1..Len(cleanIn) : ~IsNaN(passes[3][i]) /\ IsNaN(passes[5][i])
    /\ \E i \in 1..Len(cleanIn) : ~IsNaN(timeseries[i]) /\ timeseries[i] = cleanIn[i]

====
